---- MODULE Spec2Model ----
(***************************************************************************)
(* Model of PIC16bitBootHost.py: the BootDevice session of a host for the  *)
(* Microchip 16-bit UART bootloader.  The state is the BootDevice object   *)
(* (serial port, seven DeviceInfo fields), the transport log of the last   *)
(* method call and that call's outcome.  Every public method is one        *)
(* action; what the serial port hands back (a full, short or empty read)   *)
(* is the action's input.  Spec lets a caller use the methods in any       *)
(* order; SpecMain is the script under __main__, which calls them once     *)
(* each in its fixed order and ends at the first exception.                *)
(***************************************************************************)
EXTENDS Integers, Sequences, FiniteSets, TLC

VARIABLES
    port,                \* self.port: "closed" or "open"
    bootloader_version,  \* DeviceInfo, set by get_version
    max_packet_size,
    device_id,
    erase_page_size,
    min_write_size,
    start_address,       \* DeviceInfo, set by get_memory_range (word units)
    end_address,
    version_known,       \* history: a get_version call has returned normally
    range_known,         \* history: a get_memory_range call got Success + payload
    call,                \* the last method call: its name and arguments
    io,                  \* the port.write / port.read calls made by that call
    ret,                 \* how that call ended: value returned or exception
    pc,                  \* __main__: the statement to run next ("api": no script)
    run                  \* __main__: the calls made so far, each with its log

vars == << port, bootloader_version, max_packet_size, device_id, erase_page_size,
           min_write_size, start_address, end_address, version_known,
           range_known, call, io, ret, pc, run >>

info == << bootloader_version, max_packet_size, device_id, erase_page_size,
           min_write_size, start_address, end_address >>

-----------------------------------------------------------------------------
(* Protocol constants, lines 19-35.                                        *)

CMD_VER == 0
CMD_READ == 1
CMD_WRITE == 2
CMD_ERASE == 3
CMD_RESET == 9
CMD_MEMORY == 11
UNLOCK_KEY == << 85, 0, 170, 0 >>
EMPTY_BYTE == << 0, 0 >>

SUCCESS == 1
INVALID_COMPARE == 253
INVALID_ADDRESS == 254
UNSUPPORTED_CMD == 255

\* MCUResponse(b): the enum member for a status byte, "ValueError" when the
\* byte is no member (enum lookup by value raises ValueError).
MCUResponse(b) ==
    CASE b = SUCCESS -> "SUCCESS"
      [] b = INVALID_COMPARE -> "INVALID_COMPARE"
      [] b = INVALID_ADDRESS -> "INVALID_ADDRESS"
      [] b = UNSUPPORTED_CMD -> "UNSUPPORTED_CMD"
      [] OTHER -> "ValueError"

head_size == 11

-----------------------------------------------------------------------------
(* Python arithmetic and struct packing.                                   *)

\* a // b of Python: floor division, for either sign of b (b # 0).
PyDiv(a, b) == IF b > 0 THEN a \div b ELSE (0 - a) \div (0 - b)

\* list(range(a, b, step)), step # 0.
RECURSIVE PyRange(_, _, _)
PyRange(a, b, step) ==
    IF (step > 0 /\ a >= b) \/ (step < 0 /\ a <= b)
    THEN << >>
    ELSE << a >> \o PyRange(a + step, b, step)

\* struct 'H' and 'I'/'L' with '=': 2 and 4 bytes, low byte first.
PackH(n) == << n % 256, (n \div 256) % 256 >>
PackI(n) == << n % 256, (n \div 256) % 256, (n \div 65536) % 256,
               (n \div 16777216) % 256 >>
UnpackH(b, i) == b[i] + 256 * b[i + 1]
UnpackL(b, i) == b[i] + 256 * b[i + 1] + 65536 * b[i + 2] + 16777216 * b[i + 3]

\* struct.pack raises struct.error for a number outside the field.
FitsH(n) == n >= 0 /\ n <= 65535
FitsI(n) == n >= 0 /\ n \div 65536 <= 65535

\* The command header packed with the key field left empty.
PackCmd_no_key(op, field, key, addr) == << op >> \o PackH(field) \o << 0, 0, 0, 0 >> \o PackI(addr)

\* struct.pack('=cH4sI', op, field, key, addr): the 11-byte command header.
PackCmd(op, field, key, addr) == << op >> \o PackH(field) \o key \o PackI(addr)

Fill(n, b) == [i \in 1..n |-> b]
Zeros(n) == Fill(n, 0)

-----------------------------------------------------------------------------
(* The transport log.                                                      *)

WriteEv(bytes) == [t |-> "write", size |-> Len(bytes), bytes |-> bytes]
ReadEv(n, bytes) == [t |-> "read", size |-> n, bytes |-> bytes]

\* How a call ended.  kind/val: the value returned or the exception raised;
\* err: the message written to stderr; data: the bytes returned; report: the
\* addresses printed as "Error writing to"; chunks: the (addr, data) pairs
\* write_hex_file passed to write_to_mcu.
Returned(v) == [kind |-> "return", val |-> v, err |-> "", report |-> << >>,
                data |-> << >>, chunks |-> << >>]
Raised(e) == [kind |-> "raise", val |-> e, err |-> "", report |-> << >>,
              data |-> << >>, chunks |-> << >>]
\* sys.stderr.write(msg); return
Refused(msg) == [kind |-> "return", val |-> "None", err |-> msg,
                 report |-> << >>, data |-> << >>, chunks |-> << >>]

NoImage == [a \in {} |-> 0]
Call(op, a, n, data, hex) == [op |-> op, a |-> a, n |-> n, data |-> data, hex |-> hex]

Finish(c, log, r) == call' = c /\ io' = log /\ ret' = r

-----------------------------------------------------------------------------
(* What the serial port can hand back.  port.read(n) blocks up to the 1 s  *)
(* timeout of open_port and returns the bytes that arrived, at most n: the *)
(* whole response, a response one byte short, or nothing.                  *)

Cut(resp) ==
    {resp, << >>} \cup (IF Len(resp) > 0 THEN {SubSeq(resp, 1, Len(resp) - 1)} ELSE {})

\* A 12-byte response header: the status is byte 11 (the twelfth byte).
Header(status) == Zeros(11) \o << status >>

\* The four statuses of MCUResponse and one byte that is none of them.
StatusBytes == {SUCCESS, INVALID_COMPARE, INVALID_ADDRESS, UNSUPPORTED_CMD, 2}

HeaderReads == UNION {Cut(Header(s)) : s \in StatusBytes}

\* The header reads of get_memory_range, which never looks at the header.
RangeHeaderReads == Cut(Header(SUCCESS)) \cup {Header(INVALID_ADDRESS)}

\* A 37-byte version response in the layout '=11pHH2pH2pHH12p'.
VerResp(bv, mps, did, eps, mws) ==
    Zeros(11) \o PackH(bv) \o PackH(mps) \o Zeros(2) \o PackH(did) \o Zeros(2)
        \o PackH(eps) \o PackH(mws) \o Zeros(12)

\* << max_packet_size, erase_page_size, min_write_size >> a device may report.
DeviceLimits ==
    { << 19, 4, 4 >>, << 15, 4, 2 >>, << 14, 4, 3 >>, << 12, 4, 1 >>,
      << 11, 4, 4 >>, << 19, 0, 4 >>, << 19, 4, 0 >>, << 8, 4, 4 >> }

VersionReads == UNION {Cut(VerResp(258, d[1], 4660, d[2], d[3])) : d \in DeviceLimits}

\* << start_address, end_address >> a device may report, in words.
MemRanges ==
    { << 0, 16 >>, << 4, 20 >>, << 5, 2 >>, << 5, 21 >>, << 8, 24 >>, << 4, 262148 >> }

RangeReads == UNION {Cut(PackI(m[1]) \o PackI(m[2])) : m \in MemRanges}

-----------------------------------------------------------------------------
(* Construction and the port, lines 48-62.                                 *)

\* A BootDevice right after BootDevice().
Fresh ==
    /\ port = "closed"
    /\ bootloader_version = 0
    /\ max_packet_size = 0
    /\ device_id = 0
    /\ erase_page_size = 0
    /\ min_write_size = 0
    /\ start_address = 0
    /\ end_address = 0
    /\ version_known = FALSE
    /\ range_known = FALSE
    /\ call = Call("__init__", 0, 0, << >>, NoImage)
    /\ io = << >>
    /\ ret = Returned("None")

\* No script: the methods are called in any order.
Init == Fresh /\ pc = "api" /\ run = << >>

\* serial.Serial(device, baudrate, timeout=1) opens the port or raises.
open_port ==
    /\ \E ok \in BOOLEAN :
          IF ok
          THEN port' = "open" /\ Finish(Call("open_port", 0, 0, << >>, NoImage), << >>, Returned("None"))
          ELSE port' = port /\ Finish(Call("open_port", 0, 0, << >>, NoImage), << >>, Raised("SerialException"))
    /\ UNCHANGED << info, version_known, range_known >>

close_port ==
    /\ port' = "closed"
    /\ Finish(Call("close_port", 0, 0, << >>, NoImage), << >>, Returned("None"))
    /\ UNCHANGED << info, version_known, range_known >>

-----------------------------------------------------------------------------
(* The two queries, lines 64-76.                                           *)

\* get_version with `resp` what port.read(37) hands back.
get_version(resp) ==
    LET c == Call("get_version", 0, 0, << >>, NoImage)
        log == << WriteEv(<< CMD_VER >> \o EMPTY_BYTE \o EMPTY_BYTE \o EMPTY_BYTE
                              \o EMPTY_BYTE \o EMPTY_BYTE),
                  ReadEv(37, resp) >>
    IN  /\ UNCHANGED << port, start_address, end_address, range_known >>
        /\ IF port # "open"
           THEN /\ Finish(c, << >>, Raised("PortNotOpenError"))
                /\ UNCHANGED << bootloader_version, max_packet_size, device_id,
                                erase_page_size, min_write_size, version_known >>
           ELSE IF Len(resp) # 37
           THEN /\ Finish(c, log, Raised("struct.error"))
                /\ UNCHANGED << bootloader_version, max_packet_size, device_id,
                                erase_page_size, min_write_size, version_known >>
           ELSE /\ bootloader_version' = UnpackH(resp, 12)
                /\ max_packet_size' = UnpackH(resp, 14)
                /\ device_id' = UnpackH(resp, 18)
                /\ erase_page_size' = UnpackH(resp, 22)
                /\ min_write_size' = UnpackH(resp, 24)
                /\ version_known' = TRUE
                /\ Finish(c, log, [Returned("bytes") EXCEPT !.data = resp])

\* get_memory_range with `head` and `resp` what the two reads hand back.
get_memory_range(head, resp) ==
    LET c == Call("get_memory_range", 0, 0, << >>, NoImage)
        log == << WriteEv(<< CMD_MEMORY >> \o << 8, 0 >> \o EMPTY_BYTE \o EMPTY_BYTE
                              \o EMPTY_BYTE \o EMPTY_BYTE),
                  ReadEv(12, head), ReadEv(8, resp) >>
    IN  /\ UNCHANGED << port, bootloader_version, max_packet_size, device_id,
                        erase_page_size, min_write_size, version_known >>
        /\ IF port # "open"
           THEN /\ Finish(c, << >>, Raised("PortNotOpenError"))
                /\ UNCHANGED << start_address, end_address, range_known >>
           ELSE IF Len(resp) # 8
           THEN /\ Finish(c, log, Raised("struct.error"))
                /\ UNCHANGED << start_address, end_address, range_known >>
           ELSE /\ start_address' = UnpackL(resp, 1)
                /\ end_address' = UnpackL(resp, 5)
                /\ range_known' = (range_known \/ (Len(head) = 12 /\ head[12] = SUCCESS))
                /\ Finish(c, log, [Returned("bytes") EXCEPT !.data = resp])

-----------------------------------------------------------------------------
(* erase, reset, read and write of one packet, lines 78-96 and 129-154.    *)
(* Each is an operator giving the call's transport log and outcome; the    *)
(* DeviceInfo fields are read, never written.                              *)

Outcome(log, r) == [io |-> log, ret |-> r]

\* return MCUResponse(resp[11]) for the header `resp` that was read.
StatusOf(resp) ==
    IF Len(resp) < 12 THEN Raised("IndexError")
    ELSE IF MCUResponse(resp[12]) = "ValueError" THEN Raised("ValueError")
    ELSE Returned(MCUResponse(resp[12]))

erase_mcu(start_addr, num_pages, resp) ==
    IF ~ (FitsH(num_pages) /\ FitsI(start_addr)) THEN Outcome(<< >>, Raised("struct.error"))
    ELSE IF port # "open" THEN Outcome(<< >>, Raised("PortNotOpenError"))
    ELSE Outcome(<< WriteEv(PackCmd(CMD_ERASE, num_pages, UNLOCK_KEY, start_addr)),
                    ReadEv(12, resp) >>,
                 StatusOf(resp))

\* erase_full_mcu leaving by the return of line 88 whatever the page size.
erase_full_mcu_never_erases(resp) ==
    Outcome(<< >>, Refused("Please get version of MCU Bootloader"))

\* erase_full_mcu counting the pages from address 0 instead of start_address.
erase_full_mcu_from_zero(resp) ==
    IF erase_page_size = 0
    THEN Outcome(<< >>, Refused("Please get version of MCU Bootloader"))
    ELSE erase_mcu(start_address, PyDiv(end_address, erase_page_size), resp)

erase_full_mcu(resp) ==
    IF erase_page_size = 0
    THEN Outcome(<< >>, Refused("Please get version of MCU Bootloader"))
    ELSE erase_mcu(start_address,
                   PyDiv(end_address - start_address, erase_page_size), resp)

\* reset_mcu without the read of line 95.
reset_mcu_no_read(resp) ==
    IF port # "open" THEN Outcome(<< >>, Raised("PortNotOpenError"))
    ELSE Outcome(<< WriteEv(<< CMD_RESET >> \o PackH(0) \o PackI(0) \o PackI(0)) >>,
                 Returned("SUCCESS"))

reset_mcu(resp) ==
    IF port # "open" THEN Outcome(<< >>, Raised("PortNotOpenError"))
    ELSE Outcome(<< WriteEv(<< CMD_RESET >> \o PackH(0) \o PackI(0) \o PackI(0)),
                    ReadEv(12, resp) >>,
                 StatusOf(resp))

\* `resp` is the header read, `data` what the read of num_bytes hands back.
read_from_mcu(addr, num_bytes, resp, data) ==
    IF num_bytes - head_size > max_packet_size
    THEN Outcome(<< >>, Refused("num_bytes too large"))
    ELSE IF num_bytes % 4 # 0
    THEN Outcome(<< >>, Refused("num_bytes must be mod 4"))
    ELSE IF ~ (FitsH(num_bytes) /\ FitsI(addr)) THEN Outcome(<< >>, Raised("struct.error"))
    ELSE IF port # "open" THEN Outcome(<< >>, Raised("PortNotOpenError"))
    ELSE LET w == WriteEv(PackCmd(CMD_READ, num_bytes, UNLOCK_KEY, addr))
             r == ReadEv(12, resp)
         IN  IF StatusOf(resp) # Returned("SUCCESS")
             THEN Outcome(<< w, r >>, StatusOf(resp))
             ELSE Outcome(<< w, r, ReadEv(num_bytes, data) >>,
                          [Returned("bytes") EXCEPT !.data = data])

\* write_to_mcu without the size check of lines 145-147.
write_to_mcu_any_size(addr, bytes_to_write, resp) ==
    IF min_write_size = 0 THEN Outcome(<< >>, Raised("ZeroDivisionError"))
    ELSE IF Len(bytes_to_write) % min_write_size # 0
    THEN Outcome(<< >>, Refused("bytes_to_write must be mod min_write_size"))
    ELSE IF port # "open" THEN Outcome(<< >>, Raised("PortNotOpenError"))
    ELSE Outcome(<< WriteEv(PackCmd(CMD_WRITE, Len(bytes_to_write), UNLOCK_KEY, addr)
                                \o bytes_to_write),
                    ReadEv(12, resp) >>,
                 StatusOf(resp))

write_to_mcu(addr, bytes_to_write, resp) ==
    IF Len(bytes_to_write) + head_size > max_packet_size
    THEN Outcome(<< >>, Refused("bytes_to_write too large"))
    ELSE IF min_write_size = 0 THEN Outcome(<< >>, Raised("ZeroDivisionError"))
    ELSE IF Len(bytes_to_write) % min_write_size # 0
    THEN Outcome(<< >>, Refused("bytes_to_write must be mod min_write_size"))
    ELSE IF ~ (FitsH(Len(bytes_to_write)) /\ FitsI(addr))
    THEN Outcome(<< >>, Raised("struct.error"))
    ELSE IF port # "open" THEN Outcome(<< >>, Raised("PortNotOpenError"))
    ELSE Outcome(<< WriteEv(PackCmd(CMD_WRITE, Len(bytes_to_write), UNLOCK_KEY, addr)
                                \o bytes_to_write),
                    ReadEv(12, resp) >>,
                 StatusOf(resp))

-----------------------------------------------------------------------------
(* The image (intelhex.IntelHex): a map from byte address to byte.         *)

Range(lo, hi) == {a \in lo..(hi - 1) : TRUE}

RECURSIVE Ascending(_)
Ascending(S) ==
    IF S = {} THEN << >>
    ELSE LET m == CHOOSE x \in S : \A y \in S : x <= y
         IN  << m >> \o Ascending(S \ {m})

\* IntelHex.segments(): the maximal runs of consecutive addresses, ascending,
\* each as << first address, last address + 1 >>.
segments(hex) ==
    LET D == DOMAIN hex
        firsts == {a \in D : (a - 1) \notin D}
        stop(a) == CHOOSE e \in {x + 1 : x \in D} :
                       e > a /\ e \notin D /\ \A y \in a..(e - 1) : y \in D
        order == Ascending(firsts)
    IN  [i \in 1..Len(order) |-> << order[i], stop(order[i]) >>]

\* hex_data.puts(addr, b'\xFF') for every addr of `addrs`.
puts(hex, addrs) ==
    [a \in (DOMAIN hex) \cup addrs |-> IF a \in addrs THEN 255 ELSE hex[a]]

\* hex_data.tobinstr(start, size): size bytes, 0xFF where the image has none.
tobinstr(hex, start, size) ==
    [i \in 1..size |-> IF (start + i - 1) \in DOMAIN hex THEN hex[start + i - 1] ELSE 255]

-----------------------------------------------------------------------------
(* write_hex_file, lines 98-127.                                           *)

\* The loop of lines 105-108 looking at the first segment only.
hex_last_addr_first(segs, start) ==
    IF segs = << >> THEN 0
    ELSE IF Head(segs)[1] = start * 2 THEN Head(segs)[2] \div 2
    ELSE 0

\* Lines 103-108: the loop over the segments with its break.
RECURSIVE hex_last_addr(_, _)
hex_last_addr(segs, start) ==
    IF segs = << >> THEN 0
    ELSE IF Head(segs)[1] = start * 2 THEN Head(segs)[2] \div 2
    ELSE hex_last_addr(Tail(segs), start)

\* Line 113.
max_data_packet == PyDiv(max_packet_size - head_size, min_write_size) * min_write_size

\* Line 115: the padding test.
needs_padding(last, mdp) == PyDiv(last, mdp) * mdp # last

\* Line 116.
good_last_addr(last, mdp) == (PyDiv(last, mdp) + 1) * mdp

\* Lines 115-119: the image and the last address after the padding step.
padded_hex(hex, last, mdp) ==
    IF needs_padding(last, mdp)
    THEN puts(hex, Range(last * 2, good_last_addr(last, mdp) * 2))
    ELSE hex

padded_last(last, mdp) ==
    IF needs_padding(last, mdp) THEN good_last_addr(last, mdp) ELSE last

\* The loop of line 122 walking the addresses from the top down.
chunk_addrs_descending(start, last, mdp) ==
    LET up == PyRange(start, last, PyDiv(mdp, 2))
    IN  [i \in 1..Len(up) |-> up[Len(up) + 1 - i]]

\* Line 122: the addresses of the loop.
chunk_addrs(start, last, mdp) == PyRange(start, last, PyDiv(mdp, 2))

\* Line 121.
total_blocks(start, last, mdp) == PyDiv(last - start, PyDiv(mdp, 2))

\* print_progress_bar, lines 38-44: divides by total.
print_progress_bar(iteration, total) ==
    IF total = 0 THEN "ZeroDivisionError" ELSE "printed"

\* The reply of the device to the idx-th WRITE of a sweep.
Reply(script, idx) == script[((idx - 1) % Len(script)) + 1]

\* Lines 122-126 from the idx-th address on.
RECURSIVE write_loop(_, _, _, _, _, _)
write_loop(addrs, idx, total, hex, mdp, script) ==
    IF idx > Len(addrs) THEN Outcome(<< >>, Returned("None"))
    ELSE IF print_progress_bar(idx, total) = "ZeroDivisionError"
    THEN Outcome(<< >>, Raised("ZeroDivisionError"))
    ELSE IF mdp <= 0 THEN Outcome(<< >>, Raised("ValueError"))
    ELSE LET addr == addrs[idx]
             data == tobinstr(hex, addr * 2, mdp)
             w == write_to_mcu(addr, data, Reply(script, idx))
             handed == << << addr, data >> >>
         IN  IF w.ret.kind = "raise"
             THEN Outcome(w.io, [w.ret EXCEPT !.chunks = handed])
             ELSE LET rest == write_loop(addrs, idx + 1, total, hex, mdp, script)
                      said == IF w.ret.val # "SUCCESS" THEN << addr >> ELSE << >>
                  IN  Outcome(w.io \o rest.io,
                              [rest.ret EXCEPT !.chunks = handed \o @,
                                               !.report = said \o @])

write_hex_file(hex, script) ==
    IF erase_page_size = 0 \/ start_address = 0
    THEN Outcome(<< >>, Refused("Please initialize MCU"))
    ELSE LET last == hex_last_addr(segments(hex), start_address)
         IN  IF last = 0
             THEN Outcome(<< >>, Refused("ERROR: Hex file segment not aligned with MCU Bootloader"))
             ELSE IF min_write_size = 0 \/ max_data_packet = 0 \/ PyDiv(max_data_packet, 2) = 0
             THEN Outcome(<< >>, Raised("ZeroDivisionError"))
             ELSE write_loop(chunk_addrs(start_address, padded_last(last, max_data_packet),
                                         max_data_packet),
                             1,
                             total_blocks(start_address, padded_last(last, max_data_packet),
                                          max_data_packet),
                             padded_hex(hex, last, max_data_packet),
                             max_data_packet, script)

\* The firmware images offered: byte a of an image holds HexByte(a).
HexByte(a) == 16 + a
MaxSegLen == 9
ImageOf(D) == [a \in D |-> HexByte(a)]
OneSegment == {Range(s, s + l) : s \in {8, 10, 16}, l \in 1..MaxSegLen}
ShortSegment == {Range(s, s + l) : s \in {8, 10, 16}, l \in 1..2}
WithLower == {Range(2, 4) \cup D : D \in ShortSegment}
WithUpper == {D \cup {a + 3 : a \in D} : D \in ShortSegment}
Images == {ImageOf(D) : D \in OneSegment \cup WithLower \cup WithUpper}

\* The replies of the device to the WRITE frames of a sweep, repeated in turn.
WriteReads == {Header(SUCCESS), Header(INVALID_ADDRESS), Header(2), Zeros(11)}
Scripts == {<< a, b >> : a \in WriteReads, b \in WriteReads}
AllSuccess == << Header(SUCCESS), Header(SUCCESS) >>

\* Arguments the caller may pass.
EraseArgs == { << 8, 1 >>, << 8, 65536 >> }
ReadSizes == {4, 6, 8, 12, 40}
WriteSizes == {0, 4, 6, 8, 12}
CallAddrs == {8}

\* An action for a method that only talks to the device.
Does(c, o) ==
    /\ Finish(c, o.io, o.ret)
    /\ UNCHANGED << port, info, version_known, range_known >>

EraseMcu ==
    \E a \in EraseArgs, resp \in HeaderReads :
        Does(Call("erase_mcu", a[1], a[2], << >>, NoImage), erase_mcu(a[1], a[2], resp))

EraseFullMcu ==
    \E resp \in HeaderReads :
        Does(Call("erase_full_mcu", 0, 0, << >>, NoImage), erase_full_mcu(resp))

ResetMcu ==
    \E resp \in HeaderReads :
        Does(Call("reset_mcu", 0, 0, << >>, NoImage), reset_mcu(resp))

ReadFromMcu ==
    \E addr \in CallAddrs, n \in ReadSizes, resp \in HeaderReads :
        \E data \in Cut(Fill(n, 171)) :
            Does(Call("read_from_mcu", addr, n, << >>, NoImage),
                 read_from_mcu(addr, n, resp, data))

WriteToMcu ==
    \E addr \in CallAddrs, n \in WriteSizes, resp \in HeaderReads :
        Does(Call("write_to_mcu", addr, n, Fill(n, 17), NoImage),
             write_to_mcu(addr, Fill(n, 17), resp))

\* A call that writes nothing under one script never consults the script.
WriteHexFile ==
    \E hex \in Images :
        \E script \in (IF write_hex_file(hex, AllSuccess).io = << >>
                        THEN {AllSuccess} ELSE Scripts) :
            Does(Call("write_hex_file", 0, 0, << >>, hex), write_hex_file(hex, script))

NoScript == UNCHANGED << pc, run >>

Next ==
    \/ open_port /\ NoScript
    \/ close_port /\ NoScript
    \/ (\E resp \in VersionReads : get_version(resp)) /\ NoScript
    \/ (\E head \in RangeHeaderReads, resp \in RangeReads : get_memory_range(head, resp))
          /\ NoScript
    \/ EraseMcu /\ NoScript
    \/ EraseFullMcu /\ NoScript
    \/ ResetMcu /\ NoScript
    \/ ReadFromMcu /\ NoScript
    \/ WriteToMcu /\ NoScript
    \/ WriteHexFile /\ NoScript

Spec == Init /\ [][Next]_vars

-----------------------------------------------------------------------------
(* The script under __main__, lines 157-165: one call per statement.  An   *)
(* exception leaves the script at once (there is no try), so the           *)
(* statements after it, close_port among them, are not run.                *)

InitMain == Fresh /\ pc = "open_port" /\ run = << >>

\* The statement at `here` has made its call; the script goes on to `next`.
Statement(here, next) ==
    /\ pc = here
    /\ run' = Append(run, [op |-> call'.op, io |-> io', ret |-> ret'])
    /\ pc' = IF ret'.kind = "raise" THEN "crashed" ELSE next

\* The hex file and the device's replies to its chunks in a run of the script.
MainImages ==
    {ImageOf(D) : D \in {Range(8, 10), Range(8, 14), Range(10, 12), Range(16, 20),
                         Range(12, 14), Range(2, 4) \cup Range(8, 10)}}
MainScripts == {<< a, Header(SUCCESS) >> : a \in WriteReads}

MainOpenPort == open_port /\ Statement("open_port", "get_version")

MainGetVersion ==
    (\E resp \in VersionReads : get_version(resp))
        /\ Statement("get_version", "get_memory_range")

MainGetMemoryRange ==
    (\E head \in RangeHeaderReads, resp \in RangeReads : get_memory_range(head, resp))
        /\ Statement("get_memory_range", "erase_full_mcu")

MainEraseFullMcu == EraseFullMcu /\ Statement("erase_full_mcu", "write_hex_file")

MainWriteHexFile ==
    (\E hex \in MainImages :
        \E script \in (IF write_hex_file(hex, AllSuccess).io = << >>
                        THEN {AllSuccess} ELSE MainScripts) :
            Does(Call("write_hex_file", 0, 0, << >>, hex), write_hex_file(hex, script)))
        /\ Statement("write_hex_file", "reset_mcu")

MainResetMcu == ResetMcu /\ Statement("reset_mcu", "close_port")

MainClosePort == close_port /\ Statement("close_port", "done")

NextMain ==
    \/ MainOpenPort
    \/ MainGetVersion
    \/ MainGetMemoryRange
    \/ MainEraseFullMcu
    \/ MainWriteHexFile
    \/ MainResetMcu
    \/ MainClosePort

SpecMain == InitMain /\ [][NextMain]_vars

-----------------------------------------------------------------------------
(* Reading the transport log and the last call.                            *)

IsFrame(e, op) == e.t = "write" /\ e.bytes[1] = op
FrameField(e) == UnpackH(e.bytes, 2)
FrameKey(e) == SubSeq(e.bytes, 4, 7)
FrameAddr(e) == UnpackL(e.bytes, 8)
FramePayload(e) == SubSeq(e.bytes, 12, Len(e.bytes))

Frames(op) == {i \in 1..Len(io) : IsFrame(io[i], op)}
Wrote == {i \in 1..Len(io) : io[i].t = "write"}

AlignmentError == "ERROR: Hex file segment not aligned with MCU Bootloader"

\* The last call was write_hex_file on a session that passed the guard of
\* line 99; Located: and the image has a segment starting at start_address*2.
Planning ==
    /\ call.op = "write_hex_file"
    /\ erase_page_size # 0
    /\ start_address # 0
SegmentStarts == {segments(call.hex)[i][1] : i \in 1..Len(segments(call.hex))}
Located == Planning /\ (start_address * 2) \in SegmentStarts
LocatedSegment ==
    segments(call.hex)[CHOOSE i \in 1..Len(segments(call.hex)) :
                           segments(call.hex)[i][1] = start_address * 2]
\* hex_last_addr after the padding step of lines 115-119.
LastWordAddr == padded_last(LocatedSegment[2] \div 2, max_data_packet)
\* Device limits for which line 113 gives a positive, even chunk size.
SaneLimits ==
    /\ min_write_size > 0
    /\ min_write_size % 2 = 0
    /\ max_packet_size - head_size >= min_write_size
\* Every segment of the image is a whole number of 2-byte words.
WholeWords ==
    \A i \in 1..Len(segments(call.hex)) :
        segments(call.hex)[i][1] % 2 = 0 /\ segments(call.hex)[i][2] % 2 = 0
\* Both queries have succeeded: the session state Queried.
Queried == version_known /\ range_known
\* Every frame of the sweep was sent and answered Success.
SweepDone == ret.kind = "return" /\ ret.err = "" /\ ret.report = << >>

-----------------------------------------------------------------------------
(* C1: for every populated DeviceInfo and every image with a segment at    *)
(* byte start_address*2, the chunks write_hex_file hands to write_to_mcu   *)
(* have a payload that is a multiple of min_write_size and at most         *)
(* max_data_packet, strictly ascending addresses, and byte ranges that     *)
(* cover [2*start_address, 2*last_word_addr) exactly once: no gap, no      *)
(* overlap, nothing outside.  Stated for an image of whole words and a     *)
(* sweep that ran to its end.                                              *)
C1_ChunksTileImage ==
    (Located /\ Queried /\ SaneLimits /\ WholeWords /\ SweepDone) =>
        LET ch == ret.chunks
            n == Len(ch)
        IN  /\ \A i \in 1..n :
                  /\ Len(ch[i][2]) % min_write_size = 0
                  /\ Len(ch[i][2]) <= max_data_packet
            /\ \A i \in 1..(n - 1) :
                  /\ ch[i][1] < ch[i + 1][1]
                  /\ 2 * ch[i + 1][1] = 2 * ch[i][1] + Len(ch[i][2])
            /\ IF n = 0
               THEN LastWordAddr = start_address
               ELSE /\ ch[1][1] = start_address
                    /\ 2 * ch[n][1] + Len(ch[n][2]) = 2 * LastWordAddr

(* C2, as claimed: when the lowest (first) segment of the image does not   *)
(* start at byte start_address*2, write_hex_file fails with the alignment  *)
(* error and writes nothing, also when a later segment starts there.       *)
(* Stated for an image of whole words on a queried device.                 *)
C2_LowestSegmentDecides ==
    (/\ Planning /\ Queried /\ SaneLimits /\ WholeWords
     /\ segments(call.hex)[1][1] # start_address * 2) =>
        (io = << >> /\ ret.err = AlignmentError)

(* C2, amended: when no segment of the image starts at byte                *)
(* start_address*2, write_hex_file returns after the alignment message     *)
(* with nothing written to or read from the transport; when some segment,  *)
(* the first or a later one, starts there, there is no alignment error.    *)
C2_NoSegmentNoWrite ==
    Planning =>
        IF Located
        THEN ret.err # AlignmentError
        ELSE io = << >> /\ ret.kind = "return" /\ ret.val = "None"
                 /\ ret.err = AlignmentError

\* An image whose only segments start elsewhere was refused.
C2_Witness ==
    /\ Planning /\ ~ Located /\ port = "open"
    /\ Len(segments(call.hex)) = 2
    /\ ret.err = AlignmentError

(* C3: when the located segment is shorter than one chunk (its length is   *)
(* below max_data_packet), write_hex_file sends exactly one WRITE frame,   *)
(* of exactly max_data_packet payload bytes, for every start_address.      *)
(* Stated for a segment of whole words and a sweep that ran to its end.    *)
C3_ShortSegmentOneFrame ==
    (/\ Located /\ Queried /\ SaneLimits /\ WholeWords /\ SweepDone /\ port = "open"
     /\ LocatedSegment[2] - LocatedSegment[1] < max_data_packet) =>
        /\ Cardinality(Frames(CMD_WRITE)) = 1
        /\ \A i \in Frames(CMD_WRITE) : Len(FramePayload(io[i])) = max_data_packet

(* C4: no ERASE or WRITE frame is written to the transport before both     *)
(* get_version and get_memory_range have succeeded (session state Queried).*)
C4_NoMutationBeforeQueried ==
    (Frames(CMD_ERASE) \cup Frames(CMD_WRITE) # {}) => Queried

(* C5: decoding the status of a 12-byte response never fails: erase_mcu,   *)
(* reset_mcu, write_to_mcu and read_from_mcu return normally whatever      *)
(* byte 11 of the header is, the four known bytes as their status.         *)
C5_DecodeNeverFails ==
    (/\ call.op \in {"erase_mcu", "reset_mcu", "write_to_mcu", "read_from_mcu"}
     /\ Len(io) >= 2
     /\ Len(io[2].bytes) = 12) =>
        /\ ret.kind = "return"
        /\ io[2].bytes[12] = INVALID_COMPARE => ret.val = "INVALID_COMPARE"
        /\ io[2].bytes[12] = INVALID_ADDRESS => ret.val = "INVALID_ADDRESS"
        /\ io[2].bytes[12] = UNSUPPORTED_CMD => ret.val = "UNSUPPORTED_CMD"
        /\ (io[2].bytes[12] = SUCCESS /\ call.op # "read_from_mcu") => ret.val = "SUCCESS"

\* The sizes of the reads that answer the frame at io[i].
ExpectedReads(i) ==
    CASE IsFrame(io[i], CMD_VER) -> << 37 >>
      [] IsFrame(io[i], CMD_MEMORY) -> << 12, 8 >>
      [] IsFrame(io[i], CMD_READ) ->
            IF i < Len(io) /\ Len(io[i + 1].bytes) = 12 /\ io[i + 1].bytes[12] = SUCCESS
            THEN << 12, FrameField(io[i]) >>
            ELSE << 12 >>
      [] OTHER -> << 12 >>

(* C6: writes and reads alternate per command.  The log of every call      *)
(* starts with a frame, and every frame is followed by reads of exactly    *)
(* its expected response (37 for VER, 12 and 8 for MEMORY_RANGE, 12 for    *)
(* ERASE, WRITE and RESET, 12 and then num_bytes on Success for READ)      *)
(* before the next frame or the end of the call; a run is the calls' logs  *)
(* one after the other, so one command is in flight at a time.             *)
C6_WriteThenExpectedReads ==
    /\ io # << >> => io[1].t = "write"
    /\ \A i \in Wrote :
          LET want == ExpectedReads(i)
          IN  /\ i + Len(want) <= Len(io)
              /\ \A k \in 1..Len(want) :
                    io[i + k].t = "read" /\ io[i + k].size = want[k]
              /\ (i + Len(want) < Len(io)) => io[i + Len(want) + 1].t = "write"

\* A sweep of several WRITE frames, each answered before the next.
C6_Witness ==
    call.op = "write_hex_file" /\ Cardinality(Frames(CMD_WRITE)) >= 2

\* write_to_mcu was called with a payload the device limits do not allow.
C7_Invalid ==
    /\ call.op = "write_to_mcu"
    /\ \/ Len(call.data) + head_size > max_packet_size
       \/ (min_write_size # 0 /\ Len(call.data) % min_write_size # 0)

(* C7: write_to_mcu validates before any I/O: a payload that is not a      *)
(* multiple of min_write_size or that with the 11-byte header exceeds      *)
(* max_packet_size is refused (message on stderr, None returned) with      *)
(* nothing written or read and no field of the session changed; so every   *)
(* WRITE frame sent is at most max_packet_size bytes long.                 *)
C7_WriteValidatesFirst ==
    /\ [](C7_Invalid =>
            io = << >> /\ ret.kind = "return" /\ ret.val = "None" /\ ret.err # "")
    /\ [](\A i \in Frames(CMD_WRITE) : io[i].size <= max_packet_size)
    /\ [][call'.op = "write_to_mcu" => UNCHANGED << port, info >>]_vars

\* An oversized payload was refused on an open port of a known device.
C7_Witness ==
    /\ C7_Invalid /\ port = "open" /\ version_known
    /\ Len(call.data) + head_size > max_packet_size
    /\ ret.err = "bytes_to_write too large"

(* C8: read_from_mcu validates before any I/O: num_bytes that is not a     *)
(* multiple of 4, or with num_bytes + header_size > max_packet_size, is    *)
(* refused with nothing written to the transport.  Stated for a device     *)
(* whose version query has succeeded.                                      *)
C8_ReadValidatesFirst ==
    (/\ call.op = "read_from_mcu" /\ version_known /\ SaneLimits
     /\ (call.n % 4 # 0 \/ call.n + head_size > max_packet_size)) =>
        (io = << >> /\ ret.kind = "return" /\ ret.val = "None" /\ ret.err # "")

(* C9: the DeviceInfo fields are zero until the corresponding query has    *)
(* succeeded: the five version fields until a full 37-byte response, and   *)
(* start_address and end_address until a Success header with its payload.  *)
C9_FieldsOnlyAfterSuccess ==
    /\ ~ version_known =>
          << bootloader_version, max_packet_size, device_id, erase_page_size,
             min_write_size >> = << 0, 0, 0, 0, 0 >>
    /\ ~ range_known => << start_address, end_address >> = << 0, 0 >>

(* C10: a read that hands back fewer bytes than were asked for is fatal    *)
(* for the call that issued it: the call raises, it returns no value.      *)
C10_ShortReadIsFatal ==
    (\E i \in 1..Len(io) : io[i].t = "read" /\ Len(io[i].bytes) < io[i].size) =>
        ret.kind = "raise"

-----------------------------------------------------------------------------
(* Claims about the script under __main__ (SpecMain).                      *)

\* The script has ended: it ran to its last statement or an exception left it.
Ended == pc \in {"done", "crashed"}

\* The frames the script has written so far, in order.
RECURSIVE RunWrites(_)
RunWrites(r) ==
    IF r = << >> THEN << >>
    ELSE RunWrites(SubSeq(r, 1, Len(r) - 1))
            \o SelectSeq(r[Len(r)].io, LAMBDA e : e.t = "write")

Ops(frames) == [i \in 1..Len(frames) |-> frames[i].bytes[1]]

\* The step of the run made by statement `op`, as a set (empty: not run yet).
Step(op) == {run[i] : i \in {j \in 1..Len(run) : run[j].op = op}}

(* C11: no run of the script ends with the port it opened still open: the  *)
(* port is closed when the script is done and when an exception ended it.  *)
C11_PortClosedAtEnd ==
    (Ended /\ \E s \in Step("open_port") : s.ret.kind # "raise") => port = "closed"

\* The phase of the flow a frame belongs to, by its opcode.
Phase(op) ==
    CASE op = CMD_VER -> 1
      [] op = CMD_MEMORY -> 2
      [] op = CMD_ERASE -> 3
      [] op = CMD_WRITE -> 4
      [] op = CMD_RESET -> 5
      [] OTHER -> 0

\* No frame of an earlier phase follows one of a later phase, only the WRITE
\* phase has more than one frame, and the WRITE addresses strictly ascend.
InPhaseOrder(frames) ==
    \A i, j \in 1..Len(frames) :
        i < j =>
            /\ Phase(frames[i].bytes[1]) > 0
            /\ Phase(frames[i].bytes[1]) <= Phase(frames[j].bytes[1])
            /\ Phase(frames[i].bytes[1]) = Phase(frames[j].bytes[1]) =>
                  /\ frames[i].bytes[1] = CMD_WRITE
                  /\ FrameAddr(frames[i]) < FrameAddr(frames[j])

\* The opcodes between the first `lead` frames and the last frame are WRITEs.
WritesBetween(ops, lead) == \A i \in (lead + 1)..(Len(ops) - 1) : ops[i] = CMD_WRITE

(* C12 as stated: the frames of the script are in phase order with WRITE   *)
(* addresses ascending, and a run that reaches its end has sent VER,       *)
(* MEMORY_RANGE, ERASE, then only WRITE frames, then RESET as last frame.  *)
C12_VerRangeEraseWritesReset ==
    LET frames == RunWrites(run)
        ops == Ops(frames)
    IN  /\ InPhaseOrder(frames)
        /\ pc = "done" =>
              /\ Len(ops) >= 4
              /\ SubSeq(ops, 1, 3) = << CMD_VER, CMD_MEMORY, CMD_ERASE >>
              /\ WritesBetween(ops, 3)
              /\ ops[Len(ops)] = CMD_RESET

(* C12 amended: the frames of the script are in phase order with WRITE     *)
(* addresses ascending and nothing after RESET; a run that reaches its end *)
(* has sent VER, MEMORY_RANGE, the ERASE frame unless the device reported  *)
(* erase_page_size 0, then only WRITE frames, then RESET as last frame.    *)
C12_PhasesInOrder ==
    LET frames == RunWrites(run)
        ops == Ops(frames)
        lead == IF erase_page_size = 0 THEN << CMD_VER, CMD_MEMORY >>
                ELSE << CMD_VER, CMD_MEMORY, CMD_ERASE >>
    IN  /\ InPhaseOrder(frames)
        /\ pc = "done" =>
              /\ Len(ops) > Len(lead)
              /\ SubSeq(ops, 1, Len(lead)) = lead
              /\ WritesBetween(ops, Len(lead))
              /\ ops[Len(ops)] = CMD_RESET

C12_Witness ==
    LET ops == Ops(RunWrites(run))
    IN  /\ pc = "done"
        /\ Len(ops) >= 6
        /\ ops[3] = CMD_ERASE
        /\ ops[4] = CMD_WRITE
        /\ ops[5] = CMD_WRITE
        /\ ops[Len(ops)] = CMD_RESET

-----------------------------------------------------------------------------
\* The last call was erase_full_mcu, past the guard of line 86, port open.
ErasingAll == call.op = "erase_full_mcu" /\ erase_page_size # 0 /\ port = "open"

\* n is floor((end_address - start_address) / erase_page_size).
IsPageCount(n) ==
    /\ n * erase_page_size <= end_address - start_address
    /\ end_address - start_address < (n + 1) * erase_page_size

\* The call wrote exactly one frame: ERASE, at start_address, for the floor
\* of the range over the page size.
OneEraseFrame ==
    /\ Wrote = {1}
    /\ IsFrame(io[1], CMD_ERASE)
    /\ Len(io[1].bytes) = head_size
    /\ FrameAddr(io[1]) = start_address
    /\ IsPageCount(FrameField(io[1]))

(* C13 as stated: erase_full_mcu sends exactly one ERASE frame, addressed  *)
(* to start_address, whose count field is the floor of (end_address -      *)
(* start_address) / erase_page_size, whatever DeviceInfo the queries gave. *)
C13_EraseFullOneFrame == ErasingAll => OneEraseFrame

(* C13 amended: it does so when that floor is in 0..65535; when it is not, *)
(* erase_full_mcu raises struct.error and nothing is written or read.      *)
C13_EraseFullFrameOrError ==
    ErasingAll =>
        IF \E n \in 0..65535 : IsPageCount(n)
        THEN OneEraseFrame
        ELSE io = << >> /\ ret.kind = "raise" /\ ret.val = "struct.error"

C13_Witness ==
    ErasingAll /\ Queried /\ OneEraseFrame /\ FrameField(io[1]) = 4 /\ start_address = 4

-----------------------------------------------------------------------------
\* e is a command frame of the protocol: an 11-byte header, with the unlock
\* key for the commands that change or read flash, zeros for the others.
WellFormedFrame(e) ==
    /\ Len(e.bytes) >= head_size
    /\ e.size = Len(e.bytes)
    /\ e.bytes[1] \in {CMD_VER, CMD_READ, CMD_WRITE, CMD_ERASE, CMD_RESET, CMD_MEMORY}
    /\ e.bytes[1] \in {CMD_ERASE, CMD_READ, CMD_WRITE} => FrameKey(e) = << 85, 0, 170, 0 >>
    /\ e.bytes[1] \in {CMD_VER, CMD_MEMORY, CMD_RESET} =>
          FrameKey(e) = << 0, 0, 0, 0 >> /\ FrameAddr(e) = 0
    /\ e.bytes[1] = CMD_MEMORY => FrameField(e) = 8
    /\ e.bytes[1] \in {CMD_VER, CMD_RESET} => FrameField(e) = 0
    /\ Len(e.bytes) = head_size + (IF e.bytes[1] = CMD_WRITE THEN FrameField(e) ELSE 0)

(* C14: everything written to the port is a command frame with the        *)
(* 11-byte header opcode, 2-byte field, 4-byte key, 4-byte address; ERASE, *)
(* READ and WRITE carry the key 55 00 AA 00; VER, MEMORY_RANGE and RESET   *)
(* carry zero key and address, MEMORY_RANGE with field 8; only WRITE has a *)
(* payload, of the length its field says.                                  *)
C14_FramesWellFormed == \A i \in Wrote : WellFormedFrame(io[i])

C14_Witness ==
    /\ call.op = "write_hex_file"
    /\ Cardinality(Frames(CMD_WRITE)) >= 2
    /\ \A i \in Frames(CMD_WRITE) :
          FrameKey(io[i]) = UNLOCK_KEY /\ FrameField(io[i]) = 8 /\ Len(io[i].bytes) = 19

-----------------------------------------------------------------------------
(* C15: after the padding step the distance from start_address to          *)
(* last_word_addr is a whole number of chunks of max_data_packet/2 words,  *)
(* so the chunks cover [start_address, last_word_addr) with no remainder   *)
(* and none reaches past last_word_addr.                                   *)
C15_PaddedRangeDividesEvenly ==
    (Located /\ Queried /\ SaneLimits /\ WholeWords /\ start_address < end_address) =>
        /\ (LastWordAddr - start_address) % (max_data_packet \div 2) = 0
        /\ \A i \in Frames(CMD_WRITE) :
              FrameAddr(io[i]) + (max_data_packet \div 2) <= LastWordAddr

-----------------------------------------------------------------------------
\* hex_last_addr before the padding step: the end of the located segment.
UnpaddedLastWordAddr == LocatedSegment[2] \div 2

(* C16: the padding step works in chunks of max_data_packet/2 words: a     *)
(* last_word_addr that is a multiple of the chunk stays as it is and no    *)
(* frame is sent for words at or above it; any other is raised to the next *)
(* multiple of the chunk.                                                  *)
C16_PadsToNextChunk ==
    LET chunk == max_data_packet \div 2
        last == UnpaddedLastWordAddr
    IN  (Located /\ Queried /\ SaneLimits /\ WholeWords /\ start_address < end_address) =>
            IF last % chunk = 0
            THEN /\ LastWordAddr = last
                 /\ \A i \in Frames(CMD_WRITE) : FrameAddr(io[i]) < last
            ELSE LastWordAddr = ((last \div chunk) + 1) * chunk

-----------------------------------------------------------------------------
\* The chunks the sweep has to make, the chunks it handed to write_to_mcu and
\* the WRITE frames it sent, each as the sequence of their word addresses.
PlannedChunks == chunk_addrs(start_address, LastWordAddr, max_data_packet)
AttemptedChunks == [i \in 1..Len(ret.chunks) |-> ret.chunks[i][1]]
SentChunks ==
    LET frames == SelectSeq(io, LAMBDA e : IsFrame(e, CMD_WRITE))
    IN  [i \in 1..Len(frames) |-> FrameAddr(frames[i])]

\* Every reply the device gave in the call is a full header with one of the
\* four status codes of MCUResponse.
RepliesKnown ==
    \A i \in 1..Len(io) :
        io[i].t = "read" =>
            /\ Len(io[i].bytes) = 12
            /\ io[i].bytes[12] \in {SUCCESS, INVALID_COMPARE, INVALID_ADDRESS, UNSUPPORTED_CMD}

\* The addresses of the frames whose reply (the event after it) was not Success.
FailedChunks ==
    LET n == Len(io) \div 2
        failed == SelectSeq([i \in 1..n |-> << FrameAddr(io[2 * i - 1]), io[2 * i].bytes[12] >>],
                            LAMBDA p : p[2] # SUCCESS)
    IN  [i \in 1..Len(failed) |-> failed[i][1]]

(* C17: write_hex_file goes through all its chunks whatever known status   *)
(* each one gets: every planned chunk is handed to write_to_mcu and sent   *)
(* once, in ascending order, and the call reports exactly the addresses    *)
(* whose status was not Success.                                           *)
C17_BestEffortSweep ==
    (Located /\ Queried /\ SaneLimits /\ WholeWords /\ start_address < end_address
             /\ port = "open" /\ RepliesKnown) =>
        /\ ret.kind = "return"
        /\ AttemptedChunks = PlannedChunks
        /\ SentChunks = PlannedChunks
        /\ ret.report = FailedChunks

-----------------------------------------------------------------------------
\* The payload bytes the sweep sent for image byte a: one per WRITE frame
\* whose byte range holds a.
SentFor(a) ==
    {<< i, FramePayload(io[i])[a - 2 * FrameAddr(io[i]) + 1] >> :
        i \in {j \in Frames(CMD_WRITE) :
                  /\ 2 * FrameAddr(io[j]) <= a
                  /\ a < 2 * FrameAddr(io[j]) + FrameField(io[j])}}

(* C18: when the sweep has run to its end with every chunk answered        *)
(* Success, each byte of the located segment, from byte 2*start_address to *)
(* the segment's end, was sent in exactly one WRITE payload, with the      *)
(* value it has in the image; so also the last byte of a segment that      *)
(* ends at an odd byte offset.                                             *)
C18_EverySegmentByteSentOnce ==
    (Located /\ Queried /\ SaneLimits /\ start_address < end_address
             /\ port = "open" /\ start_address % (max_data_packet \div 2) = 0
             /\ ret.kind # "raise" /\ RepliesKnown) =>
        \A a \in Range(LocatedSegment[1], LocatedSegment[2]) :
            /\ Cardinality(SentFor(a)) = 1
            /\ \A p \in SentFor(a) : p[2] = call.hex[a]

-----------------------------------------------------------------------------
\* write_hex_file, run by the script, ended on its alignment message.
AlignmentFailed == \E s \in Step("write_hex_file") : s.ret.err = AlignmentError

(* C19 as stated: the script sends ERASE before write_hex_file looks at    *)
(* the image, so a run in which write_hex_file fails its alignment check   *)
(* and which goes on to reset_mcu has the trace VER, MEMORY_RANGE, ERASE,  *)
(* RESET: the device is erased and reset, no WRITE frame is sent.          *)
C19_ErasedThenResetWithoutWrite ==
    (AlignmentFailed /\ Step("reset_mcu") # {}) =>
        Ops(RunWrites(run)) = << CMD_VER, CMD_MEMORY, CMD_ERASE, CMD_RESET >>

C19_Witness ==
    /\ pc = "done"
    /\ AlignmentFailed
    /\ Ops(RunWrites(run)) = << CMD_VER, CMD_MEMORY, CMD_ERASE, CMD_RESET >>
    /\ \E s \in Step("erase_full_mcu") : s.ret.val = "SUCCESS"

====
